---- MODULE Spec2Model ----
(***************************************************************************)
(* A model of src/App.tsx: the clip queue, the segment player              *)
(* (playSegment), the capture orchestration (handleCreateVideo) with its   *)
(* recorder callbacks and its visibilitychange handler, and the parts of   *)
(* the browser they talk to (the YouTube player, the MediaRecorder's event *)
(* queue, the capture stream's tracks, document.visibilityState).          *)
(*                                                                         *)
(* Every action is one JavaScript task: a handler runs to its next await   *)
(* or to its end without interleaving.  A run is one invocation of         *)
(* handleCreateVideo; its local variables (stream, recorder, the clips of  *)
(* its closure, the loop index) are the per-run functions below.           *)
(***************************************************************************)
EXTENDS Integers, Sequences, FiniteSets, TLC

\* ------------------------------------------------------------------ bounds
MaxRuns == 2          \* invocations of handleCreateVideo that get past its guard
VideoDuration == 3    \* last position the player can reach, in seconds
MaxClips == 3         \* clips the queue takes
MaxNow == 4           \* last value of the clock

\* The runs of a session, by number: a session numbers its runs from 1, and
\* from 0 when it is to hold one run more.
Runs == 0..MaxRuns
Tracks == {"video", "audio"}        \* getDisplayMedia({video, audio: true})
ChunkSizes == {0, 1}                \* event.data.size of a delivered chunk

\* The clips the queue is drawn from: [(5,10),(20,25)] of the spec, scaled,
\* with the ids (Date.now() of their insertion) of an earlier session.
ClipA == [id |-> 1, start |-> 0, end |-> 1]
ClipB == [id |-> 2, start |-> 2, end |-> 3]
InitQueues == {<<ClipA>>, <<ClipA, ClipB>>}

\* null, for the error message and for the artifact reference.
Null == <<"null", "">>
NullUrl == <<"null", <<>>>>

\* ------------------------------------------------------------------ state
VARIABLES
  videoId,           \* useState<string | null>: "null" or the loaded video
  clips,             \* useState<Clip[]>: the live clip queue
  startTime,         \* useState<string>: the text of the start field
  endTime,           \* useState<string>: the text of the end field
  dateNow,           \* what Date.now() returns
  isProcessing,      \* useState<boolean>
  processingStatus,  \* useState<string>
  finishedVideoUrl,  \* useState<string | null>
  error,             \* useState<string | null>
  playerRef,         \* useRef<YouTubePlayer | null>: "null" or "player"
  recordedChunks,    \* useRef<Blob[]>: one buffer for the component
  player,            \* the playback surface: [time, playing, muted, volume]
  visibilityState,   \* document.visibilityState
  listeners,         \* runs whose visibilityHandler is registered
  nextRun,           \* the run the next handleCreateVideo invocation becomes
  pc,                \* where each run's handleCreateVideo stands
  snapshot,          \* the clips of the run's closure
  stream,            \* the run's `stream`: "null" or "stream"
  trackStops,        \* how often track.stop() was called, per run and track
  recState,          \* the run's `recorder`: "none", or recorder.state
  recQueue,          \* tasks the run's recorder has queued and not yet run
  delivered,         \* every chunk the run's recorder has delivered, in order
  segs,              \* the run's playSegment invocations, in order
  cmds,              \* the commands the run has issued to the player, in order
  reports            \* the terminal statuses the run has reported, in order

uiVars == <<clips, isProcessing, processingStatus, finishedVideoUrl, error>>
envVars == <<playerRef, player, visibilityState>>
runVars == <<listeners, nextRun, pc, snapshot, stream, trackStops, recState,
             recQueue, delivered, segs, cmds, reports, recordedChunks>>
formVars == <<videoId, startTime, endTime, dateNow>>
vars == <<uiVars, envVars, runVars, formVars>>

\* ------------------------------------------------------------ the messages
\* A message is its fixed text and the text interpolated into it.
ErrAddClip == <<"Please add at least one clip.", "">>
ErrCancelled == <<"Recording stopped: you switched away from the tab.", "">>
ErrUnknown == <<"An unknown error occurred during video capture.", "">>
ErrDenied == <<"Permission to share screen was denied.", "">>

\* A processing status: its text and, for `Recording clip i of N (s - e)`,
\* the numbers interpolated into it.
Status(text, i, n, s, e) == [text |-> text, index |-> i, total |-> n, start |-> s, end |-> e]
StatusNone == Status("", 0, 0, 0, 0)
StatusAction == Status("Action Required", 0, 0, 0, 0)
StatusDone == Status("Done!", 0, 0, 0, 0)
RecordingStatus(i, cs) ==
  Status("Recording clip", i + 1, Len(cs), cs[i + 1].start, cs[i + 1].end)

\* What a failing step throws: [class, name, message].
NotAllowedError == [class |-> "DOMException", name |-> "NotAllowedError", message |-> "denied"]
NotFoundError == [class |-> "DOMException", name |-> "NotFoundError", message |-> "no source"]
NotSupportedError == [class |-> "DOMException", name |-> "NotSupportedError", message |-> "mimeType"]
PlayerError == [class |-> "Error", name |-> "TypeError", message |-> "player"]

\* The catch block without its NotAllowedError case.
CatchMessageNoDenial(err) ==
  IF err.class = "DOMException"
  THEN <<"Could not start screen capture: ", err.message>>
  ELSE IF err.class = "Error"
       THEN <<"An error occurred: ", err.message>>
       ELSE ErrUnknown

\* The message the catch block derives from what was thrown.
CatchMessage(err) ==
  IF err.class = "DOMException"
  THEN IF err.name = "NotAllowedError"
       THEN ErrDenied
       ELSE <<"Could not start screen capture: ", err.message>>
  ELSE IF err.class = "Error"
       THEN <<"An error occurred: ", err.message>>
       ELSE ErrUnknown

\* ------------------------------------------------------------ the recorder
\* A chunk is the bytes it carries; a byte names the recorder that produced
\* it and the position of its chunk among that recorder's deliveries.
ChunkData(r, n, size) == [k \in 1..size |-> <<r, n>>]

\* new Blob(parts): the parts' bytes, one part after the other.
RECURSIVE Blob(_)
Blob(parts) ==
  IF parts = <<>> THEN <<>> ELSE Head(parts) \o Blob(Tail(parts))

\* URL.createObjectURL(blob): a reference that reads back the blob.
CreateObjectURL(blob) == <<"blob:", blob>>

\* recorder.ondataavailable: `if (event.data.size > 0)`.
KeepsChunk(data) == Len(data) > 0

\* onstop with `>= 0` for `> 0`.
HasChunksAlways(chunks) == Len(chunks) >= 0

\* recorder.onstop: `if (recordedChunks.current.length > 0)`.
HasChunks(chunks) == Len(chunks) > 0

\* A stop that queues no event.
NoEvents == <<>>

\* recorder.stop(): the state becomes inactive at once, and the recorder
\* queues one task that fires dataavailable with what it gathered, then stop.
StopEvents == <<"stop">>

\* ------------------------------------------------------- the segment player
\* The polling callback with the comparison turned around.
SampleReachedInverted(currentTime, end) == currentTime <= end

\* `if (currentTime >= end)` of the polling callback.
SampleReached(currentTime, end) == currentTime >= end

\* The loop reading the first clip on every pass.
ClipAtFirst(cs, i) == cs[1]

\* clips[i] of the sequencing loop, i counted from 0.
ClipAt(cs, i) == cs[i + 1]

\* The loop reading the live queue instead of its closure's.
LiveClips(r) == clips

\* `clips` of the sequencing loop: the array the closure of the run's
\* handleCreateVideo captured, which no handler mutates.
ClosureClips(r) == snapshot[r]

\* `i < clips.length` of the sequencing loop.
LoopContinues(i, cs) == i < Len(cs)

\* The loop's end stopping a recorder that has been started, whatever its
\* state.
StopsAfterLoopAlways(state) == state # "none"

\* `if (recorder.state === 'recording')` after the loop.
StopsAfterLoop(state) == state = "recording"

\* One playSegment invocation: its arguments, its interval timer, its
\* `resolved` flag, the sample that ended it, how often it paused the player,
\* whether its settle timeout is pending, how often its promise resolved, and
\* whether its executor threw (the promise rejected).
NewSegment(clip, ok) ==
  [start |-> clip.start, end |-> clip.end, timer |-> ok, resolved |-> FALSE,
   reachedAt |-> -1, paused |-> 0, settlePending |-> FALSE, settled |-> 0,
   rejected |-> ~ok]

\* player.seekTo(start, true); player.playVideo()
SeekAndPlay(p, start) == [p EXCEPT !.time = start, !.playing = TRUE]

\* if (player.isMuted()) player.unMute(); player.setVolume(100)
FullVolume == 100
UnmuteFull(p) == [p EXCEPT !.muted = FALSE, !.volume = FullVolume]
UnmuteCmds(p) ==
  (IF p.muted THEN <<<<"unMute", 0>>>> ELSE <<>>) \o <<<<"setVolume", FullVolume>>>>
SeekCmds(start) == <<<<"seekTo", start>>, <<"playVideo", 0>>>>

\* -------------------------------------------------------------------- Init
\* The session starts from the clips the useEffect loaded from localStorage,
\* at a time after their insertion.
FirstNow == 3

InitFrom(first, queues, ref) ==
  /\ videoId = "v"
  /\ clips \in queues
  /\ startTime = ""
  /\ endTime = ""
  /\ dateNow = FirstNow
  /\ isProcessing = FALSE
  /\ processingStatus = StatusNone
  /\ finishedVideoUrl = NullUrl
  /\ error = Null
  /\ playerRef = ref
  /\ recordedChunks = <<>>
  /\ player \in [time : {0}, playing : {FALSE}, muted : BOOLEAN, volume : {FullVolume}]
  /\ visibilityState = "visible"
  /\ listeners = {}
  /\ nextRun = first
  /\ pc = [r \in Runs |-> "idle"]
  /\ snapshot = [r \in Runs |-> <<>>]
  /\ stream = [r \in Runs |-> "null"]
  /\ trackStops = [r \in Runs |-> [t \in Tracks |-> 0]]
  /\ recState = [r \in Runs |-> "none"]
  /\ recQueue = [r \in Runs |-> <<>>]
  /\ delivered = [r \in Runs |-> <<>>]
  /\ segs = [r \in Runs |-> <<>>]
  /\ cmds = [r \in Runs |-> <<>>]
  /\ reports = [r \in Runs |-> <<>>]

\* The page with the saved clips loaded, before the player is ready.
Init == InitFrom(1, InitQueues, "null")

\* The page with one clip, the player ready, and a run more to come.
InitThree == InitFrom(0, {<<ClipA>>}, "player")

\* A terminal status a run reports: which path reported it, what had been
\* thrown (on the catch path), and the error and artifact reference it set.
NoCause == [class |-> "none", name |-> "", message |-> ""]
Report(kind, cause, err, url) == [kind |-> kind, cause |-> cause, error |-> err, url |-> url]

\* ----------------------------------------------------------- handleCreateVideo
\* The button's `disabled={clips.length === 0 || isProcessing}`.
CreateDisabled == Len(clips) = 0 \/ isProcessing

\* `if (clips.length === 0 || !playerRef.current)`.
CreateRejected == Len(clips) = 0 \/ playerRef = "null"

\* The steps of the try block a fault ends here: the MediaRecorder
\* constructor (no support for video/webm) and the seekTo of playSegment.
Faults == {"none", "ctor", "seek"}
Thrown(fault) ==
  CASE fault = "ctor" -> NotSupportedError
    [] fault = "seek" -> PlayerError

\* The catch block, for run r, when ls are the registered handlers.
Catch(r, err, ls) ==
  /\ listeners' = ls \ {r}
  /\ error' = CatchMessage(err)
  /\ isProcessing' = FALSE
  /\ pc' = [pc EXCEPT ![r] = "returned"]
  /\ reports' = [reports EXCEPT ![r] =
                   Append(@, Report("failed", err, CatchMessage(err), NullUrl))]

\* A click on Create (the button is enabled, and the tab is in the
\* foreground to be clicked): the guard, the state resets, and the call of
\* getDisplayMedia, whose promise the run then awaits.
HandleCreateVideo ==
  /\ visibilityState = "visible"
  /\ ~CreateDisabled
  /\ IF CreateRejected
     THEN /\ error' = ErrAddClip
          /\ UNCHANGED <<clips, isProcessing, processingStatus, finishedVideoUrl,
                         envVars, runVars, formVars>>
     ELSE /\ nextRun <= MaxRuns
          /\ error' = Null
          /\ finishedVideoUrl' = NullUrl
          /\ isProcessing' = TRUE
          /\ processingStatus' = StatusAction
          /\ pc' = [pc EXCEPT ![nextRun] = "acquiring"]
          /\ snapshot' = [snapshot EXCEPT ![nextRun] = clips]
          /\ nextRun' = nextRun + 1
          /\ UNCHANGED <<clips, envVars, listeners, stream, trackStops, recState,
                         recQueue, delivered, segs, cmds, reports, recordedChunks,
                         formVars>>

\* getDisplayMedia rejects: the catch block runs.
AcquireReject(r, err) ==
  /\ pc[r] = "acquiring"
  /\ Catch(r, err, listeners)
  /\ UNCHANGED <<clips, processingStatus, finishedVideoUrl, envVars, nextRun,
                 snapshot, stream, trackStops, recState, recQueue, delivered,
                 segs, cmds, recordedChunks, formVars>>

\* getDisplayMedia resolves: the handler is registered, the recorder is
\* created and started, the player is set to full volume and the first
\* segment is started; a fault ends the try block at its step.
AcquireResolve(r, fault) ==
  /\ pc[r] = "acquiring"
  /\ LET cs == ClosureClips(r)
         created == fault # "ctor"
         loops == LoopContinues(0, cs)
     IN
     /\ fault = "seek" => loops
     /\ stream' = [stream EXCEPT ![r] = "stream"]
     /\ recordedChunks' = IF created THEN <<>> ELSE recordedChunks
     /\ IF ~created
        THEN /\ Catch(r, Thrown(fault), listeners \cup {r})
             /\ UNCHANGED <<recState, recQueue, player, cmds, segs, processingStatus>>
        ELSE IF loops
        THEN LET clip == ClipAt(cs, 0)
                 played == fault = "none"
             IN
             /\ recState' = [recState EXCEPT ![r] = "recording"]
             /\ segs' = [segs EXCEPT ![r] = Append(@, NewSegment(clip, played))]
             /\ processingStatus' = RecordingStatus(0, cs)
             /\ UNCHANGED recQueue
             /\ IF played
                THEN /\ player' = SeekAndPlay(UnmuteFull(player), clip.start)
                     /\ cmds' = [cmds EXCEPT ![r] =
                                   @ \o UnmuteCmds(player) \o SeekCmds(clip.start)]
                     /\ listeners' = listeners \cup {r}
                     /\ pc' = [pc EXCEPT ![r] = "awaiting"]
                     /\ UNCHANGED <<error, isProcessing, reports>>
                ELSE /\ player' = UnmuteFull(player)
                     /\ cmds' = [cmds EXCEPT ![r] = @ \o UnmuteCmds(player)]
                     /\ Catch(r, Thrown(fault), listeners \cup {r})
        ELSE /\ recState' = [recState EXCEPT ![r] =
                               IF StopsAfterLoop("recording") THEN "inactive"
                               ELSE "recording"]
             /\ recQueue' = [recQueue EXCEPT ![r] =
                               IF StopsAfterLoop("recording") THEN @ \o StopEvents
                               ELSE @]
             /\ player' = UnmuteFull(player)
             /\ cmds' = [cmds EXCEPT ![r] = @ \o UnmuteCmds(player)]
             /\ listeners' = listeners \cup {r}
             /\ pc' = [pc EXCEPT ![r] = "returned"]
             /\ UNCHANGED <<segs, processingStatus, error, isProcessing, reports>>
  /\ UNCHANGED <<clips, finishedVideoUrl, playerRef, visibilityState, nextRun,
                 snapshot, trackStops, delivered, formVars>>

\* ------------------------------------------------------------------ playSegment
\* One firing of the interval callback of the run's k-th playSegment.
Poll(r, k) ==
  /\ k \in 1..Len(segs[r])
  /\ segs[r][k].timer
  /\ LET seg == segs[r][k] IN
     IF seg.resolved
     THEN /\ segs' = [segs EXCEPT ![r][k].timer = FALSE]
          /\ UNCHANGED <<player, cmds>>
     ELSE IF SampleReached(player.time, seg.end)
     THEN /\ segs' = [segs EXCEPT ![r][k] =
                        [seg EXCEPT !.resolved = TRUE, !.timer = FALSE,
                                    !.reachedAt = player.time,
                                    !.paused = seg.paused + 1,
                                    !.settlePending = TRUE]]
          /\ player' = [player EXCEPT !.playing = FALSE]
          /\ cmds' = [cmds EXCEPT ![r] = Append(@, <<"pauseVideo", 0>>)]
     ELSE UNCHANGED <<segs, player, cmds>>
  /\ UNCHANGED <<uiVars, playerRef, visibilityState, listeners, nextRun, pc,
                 snapshot, stream, trackStops, recState, recQueue, delivered,
                 reports, recordedChunks, formVars>>

\* The settle timeout of the run's k-th playSegment fires: the promise
\* resolves and the loop of handleCreateVideo goes on, to the next segment
\* or past the loop's end to `recorder.stop()`.
Settle(r, k, fault) ==
  /\ k \in 1..Len(segs[r])
  /\ segs[r][k].settlePending
  /\ fault \in {"none", "seek"}
  /\ LET done == [segs[r] EXCEPT ![k].settlePending = FALSE,
                                 ![k].settled = segs[r][k].settled + 1]
         i == k
         waiting == pc[r] = "awaiting" /\ k = Len(segs[r])
     IN
     IF ~waiting
     THEN /\ fault = "none"
          /\ segs' = [segs EXCEPT ![r] = done]
          /\ UNCHANGED <<uiVars, player, listeners, pc, recState, recQueue,
                         cmds, reports>>
     ELSE IF LoopContinues(i, ClosureClips(r))
     THEN LET clip == ClipAt(ClosureClips(r), i) IN
          /\ segs' = [segs EXCEPT ![r] = Append(done, NewSegment(clip, fault = "none"))]
          /\ processingStatus' = RecordingStatus(i, ClosureClips(r))
          /\ UNCHANGED <<clips, finishedVideoUrl, recState, recQueue>>
          /\ IF fault = "none"
             THEN /\ player' = SeekAndPlay(player, clip.start)
                  /\ cmds' = [cmds EXCEPT ![r] = @ \o SeekCmds(clip.start)]
                  /\ UNCHANGED <<error, isProcessing, listeners, pc, reports>>
             ELSE /\ Catch(r, Thrown(fault), listeners)
                  /\ UNCHANGED <<player, cmds>>
     ELSE /\ fault = "none"
          /\ segs' = [segs EXCEPT ![r] = done]
          /\ pc' = [pc EXCEPT ![r] = "returned"]
          /\ IF StopsAfterLoop(recState[r])
             THEN /\ recState' = [recState EXCEPT ![r] = "inactive"]
                  /\ recQueue' = [recQueue EXCEPT ![r] = @ \o StopEvents]
             ELSE UNCHANGED <<recState, recQueue>>
          /\ UNCHANGED <<uiVars, player, listeners, cmds, reports>>
  /\ UNCHANGED <<playerRef, visibilityState, nextRun, snapshot, stream,
                 trackStops, delivered, recordedChunks, formVars>>

\* ------------------------------------------------------------ recorder events
\* recorder.ondataavailable with a chunk of the given size.
OnDataAvailable(r, size) ==
  LET data == ChunkData(r, Len(delivered[r]) + 1, size) IN
  /\ delivered' = [delivered EXCEPT ![r] = Append(@, data)]
  /\ recordedChunks' = IF KeepsChunk(data) THEN Append(recordedChunks, data)
                       ELSE recordedChunks

\* stream.getTracks().forEach(track => track.stop())
StopTracks(stops) == [t \in Tracks |-> stops[t] + 1]

\* The task recorder.stop() queued, for run r: recorder.start() was called
\* without a timeslice, so the recorder delivers what it gathered in one
\* chunk (ondataavailable), and then recorder.onstop runs.
OnStop(r, size) ==
  /\ recQueue[r] # <<>>
  /\ Head(recQueue[r]) = "stop"
  /\ recQueue' = [recQueue EXCEPT ![r] = Tail(@)]
  /\ OnDataAvailable(r, size)
  /\ listeners' = listeners \ {r}
  /\ IF HasChunks(recordedChunks')
     THEN /\ finishedVideoUrl' = CreateObjectURL(Blob(recordedChunks'))
          /\ processingStatus' = StatusDone
          /\ reports' = [reports EXCEPT ![r] =
               Append(@, Report("done", NoCause, error,
                                CreateObjectURL(Blob(recordedChunks'))))]
     ELSE /\ UNCHANGED <<finishedVideoUrl, processingStatus>>
          /\ reports' = [reports EXCEPT ![r] =
               Append(@, Report("empty", NoCause, error, NullUrl))]
  /\ isProcessing' = FALSE
  /\ trackStops' = [trackStops EXCEPT ![r] =
                      IF stream[r] # "null" THEN StopTracks(@) ELSE @]
  /\ UNCHANGED <<clips, error, envVars, nextRun, pc, snapshot, stream, recState,
                 segs, cmds, formVars>>

\* ------------------------------------------------------------ visibilitychange
\* `if (document.visibilityState === 'hidden')` of visibilityHandler.
HandlerActs(state) == state = "hidden"

\* `if (recorder?.state === 'recording')` of visibilityHandler.
HandlerStops(state) == state = "recording"

\* The document changes visibility and dispatches visibilitychange to the
\* registered handlers.
VisibilityChange ==
  LET now == IF visibilityState = "visible" THEN "hidden" ELSE "visible"
      fired == IF HandlerActs(now) THEN listeners ELSE {}
  IN
  /\ visibilityState' = now
  /\ recState' = [r \in Runs |->
                    IF r \in fired /\ HandlerStops(recState[r]) THEN "inactive"
                    ELSE recState[r]]
  /\ recQueue' = [r \in Runs |->
                    IF r \in fired /\ HandlerStops(recState[r])
                    THEN recQueue[r] \o StopEvents ELSE recQueue[r]]
  /\ trackStops' = [r \in Runs |->
                      IF r \in fired /\ stream[r] # "null"
                      THEN StopTracks(trackStops[r]) ELSE trackStops[r]]
  /\ listeners' = listeners \ fired
  /\ reports' = [r \in Runs |->
                   IF r \in fired
                   THEN Append(reports[r], Report("cancelled", NoCause, ErrCancelled, NullUrl))
                   ELSE reports[r]]
  /\ IF fired # {}
     THEN error' = ErrCancelled /\ isProcessing' = FALSE
     ELSE UNCHANGED <<error, isProcessing>>
  /\ UNCHANGED <<clips, processingStatus, finishedVideoUrl, playerRef, player,
                 nextRun, pc, snapshot, stream, delivered, segs, cmds,
                 recordedChunks, formVars>>

\* ------------------------------------------------------------------ the player
\* onPlayerReady: playerRef.current = event.target
OnPlayerReady ==
  /\ playerRef = "null"
  /\ playerRef' = "player"
  /\ UNCHANGED <<uiVars, player, visibilityState, runVars, formVars>>

\* A second of playback passes.
Tick ==
  /\ player.playing
  /\ player.time < VideoDuration
  /\ player' = [player EXCEPT !.time = player.time + 1]
  /\ UNCHANGED <<uiVars, playerRef, visibilityState, runVars, formVars>>

\* ------------------------------------------------------------- the clip form
\* The not-a-number value parseTimeToSeconds yields on malformed text.
NaN == -1

\* isNaN(x)
IsNaN(x) == x = NaN

\* The texts typed into the time fields: empty, malformed, and MM:SS texts.
TimeTexts == {"", "abc", "00:00", "00:01", "00:02"}

\* parseTimeToSeconds: the seconds of an MM:SS text, NaN on malformed text.
ParseTimeToSeconds(text) ==
  CASE text = "00:00" -> 0
    [] text = "00:01" -> 1
    [] text = "00:02" -> 2
    [] text = "00:03" -> 3
    [] OTHER -> NaN

\* formatTime: the MM:SS text of a number of seconds.
FormatTime(seconds) ==
  CASE seconds = 0 -> "00:00"
    [] seconds = 1 -> "00:01"
    [] seconds = 2 -> "00:02"
    [] seconds = 3 -> "00:03"

\* `start >= end`, which is false when either side is NaN.
StartNotBeforeEnd(start, end) == ~IsNaN(start) /\ ~IsNaN(end) /\ start >= end

\* The second guard asking for both times to be NaN.
InvalidBoth(start, end) == IsNaN(start) /\ IsNaN(end)

\* `isNaN(start) || isNaN(end)`
InvalidTime(start, end) == IsNaN(start) \/ IsNaN(end)

ErrEndAfterStart == <<"End time must be after start time.", "">>
ErrInvalidTime == <<"Invalid time format. Please use MM:SS or HH:MM:SS.", "">>
ErrInvalidUrl == <<"Invalid YouTube URL. Please enter a valid URL.", "">>
ErrNoPlayer == <<"Player not available. Please load a video first.", "">>

\* The place of x in a sorted array under the comparator
\* `(a, b) => a.start - b.start`: before the first element that compares
\* greater, so after the elements that compare equal.
PlaceByStart(sorted, x) ==
  IF \E i \in DOMAIN sorted : sorted[i].start > x.start
  THEN CHOOSE i \in DOMAIN sorted :
         /\ sorted[i].start > x.start
         /\ \A j \in 1..(i - 1) : sorted[j].start <= x.start
  ELSE Len(sorted) + 1

\* The array left as it is.
Unsorted(cs) == cs

\* `.sort((a, b) => a.start - b.start)`: Array.prototype.sort is stable.
RECURSIVE SortByStart(_)
SortByStart(cs) ==
  IF cs = <<>> THEN <<>>
  ELSE LET front == SortByStart(SubSeq(cs, 1, Len(cs) - 1))
           x == cs[Len(cs)]
           p == PlaceByStart(front, x)
       IN SubSeq(front, 1, p - 1) \o <<x>> \o SubSeq(front, p, Len(front))

\* `{ id: Date.now().toString(), start, end }`: the id is the clock's value,
\* of which toString gives the decimal text, one text per value.
NewClip(start, end) == [id |-> dateNow, start |-> start, end |-> end]

\* `clips.filter(clip => clip.id !== id)`
WithoutId(cs, id) == SelectSeq(cs, LAMBDA clip : clip.id # id)

\* onChange of the start field.
SetStartTime(text) ==
  /\ videoId # "null"
  /\ startTime' = text
  /\ UNCHANGED <<uiVars, envVars, runVars, videoId, endTime, dateNow>>

\* onChange of the end field.
SetEndTime(text) ==
  /\ videoId # "null"
  /\ endTime' = text
  /\ UNCHANGED <<uiVars, envVars, runVars, videoId, startTime, dateNow>>

\* handleSetTimeFromPlayer(type)
HandleSetTimeFromPlayer(type) ==
  /\ videoId # "null"
  /\ IF playerRef = "null"
     THEN /\ error' = ErrNoPlayer
          /\ UNCHANGED <<startTime, endTime>>
     ELSE /\ IF type = "start"
             THEN startTime' = FormatTime(player.time) /\ UNCHANGED endTime
             ELSE endTime' = FormatTime(player.time) /\ UNCHANGED startTime
          /\ UNCHANGED error
  /\ UNCHANGED <<clips, isProcessing, processingStatus, finishedVideoUrl,
                 envVars, runVars, videoId, dateNow>>

\* handleAddClip (a queue of MaxClips clips takes no further clip)
HandleAddClip ==
  /\ videoId # "null"
  /\ LET start == ParseTimeToSeconds(startTime)
         end == ParseTimeToSeconds(endTime)
     IN
     IF StartNotBeforeEnd(start, end)
     THEN /\ error' = ErrEndAfterStart
          /\ UNCHANGED <<clips, startTime, endTime>>
     ELSE IF InvalidTime(start, end)
     THEN /\ error' = ErrInvalidTime
          /\ UNCHANGED <<clips, startTime, endTime>>
     ELSE /\ Len(clips) < MaxClips
          /\ error' = Null
          /\ clips' = SortByStart(Append(clips, NewClip(start, end)))
          /\ startTime' = ""
          /\ endTime' = ""
  /\ UNCHANGED <<isProcessing, processingStatus, finishedVideoUrl, envVars,
                 runVars, videoId, dateNow>>

\* handleRemoveClip(id), from the trash button of a clip of the queue.
HandleRemoveClip(id) ==
  /\ videoId # "null"
  /\ \E i \in DOMAIN clips : clips[i].id = id
  /\ clips' = WithoutId(clips, id)
  /\ UNCHANGED <<isProcessing, processingStatus, finishedVideoUrl, error,
                 envVars, runVars, formVars>>

\* What extractVideoId makes of the url field: no id, or the id of a video.
VideoIds == {"null", "w"}

\* handleLoadVideo, when extractVideoId(url) is id.
HandleLoadVideo(id) ==
  /\ finishedVideoUrl' = NullUrl
  /\ IF id # "null"
     THEN /\ error' = Null
          /\ videoId' = id
          /\ clips' = <<>>
     ELSE /\ error' = ErrInvalidUrl
          /\ UNCHANGED <<videoId, clips>>
  /\ UNCHANGED <<isProcessing, processingStatus, envVars, runVars, startTime,
                 endTime, dateNow>>

\* The Dismiss button of the error box: `setError(null)`.
DismissError ==
  /\ error # Null
  /\ error' = Null
  /\ UNCHANGED <<clips, isProcessing, processingStatus, finishedVideoUrl,
                 envVars, runVars, formVars>>

\* A millisecond passes.
ClockTick ==
  /\ dateNow < MaxNow
  /\ dateNow' = dateNow + 1
  /\ UNCHANGED <<uiVars, envVars, runVars, videoId, startTime, endTime>>

\* ------------------------------------------------------------------------ Spec
Rejections == {NotAllowedError, NotFoundError}

Next ==
  \/ HandleCreateVideo
  \/ \E r \in Runs, err \in Rejections : AcquireReject(r, err)
  \/ \E r \in Runs, fault \in Faults : AcquireResolve(r, fault)
  \/ \E r \in Runs : \E k \in 1..Len(segs[r]) : Poll(r, k)
  \/ \E r \in Runs : \E k \in 1..Len(segs[r]), fault \in {"none", "seek"} : Settle(r, k, fault)
  \/ \E r \in Runs, size \in ChunkSizes : OnStop(r, size)
  \/ VisibilityChange
  \/ OnPlayerReady
  \/ Tick

Spec == Init /\ [][Next]_vars

\* The clip form and the queue, with no run.
NextQueue ==
  \/ \E text \in TimeTexts : SetStartTime(text)
  \/ \E text \in TimeTexts : SetEndTime(text)
  \/ \E type \in {"start", "end"} : HandleSetTimeFromPlayer(type)
  \/ HandleAddClip
  \/ \E id \in FirstNow..MaxNow \cup {ClipA.id, ClipB.id} : HandleRemoveClip(id)
  \/ \E id \in VideoIds : HandleLoadVideo(id)
  \/ DismissError
  \/ ClockTick
  \/ OnPlayerReady

SpecQueue == Init /\ [][NextQueue]_vars

\* Runs that meet no fault and no loss of foreground, with the form used
\* while a run is in progress: it adds a clip between the loaded ones,
\* removes clips and loads another video, which empties the queue.
EditsInFlight ==
  /\ isProcessing
  /\ \/ SetStartTime("00:01")
     \/ SetEndTime("00:02")
     \/ HandleAddClip
     \/ \E id \in {FirstNow, ClipA.id, ClipB.id} : HandleRemoveClip(id)
     \/ HandleLoadVideo("w")

NextEdit ==
  \/ HandleCreateVideo
  \/ \E r \in Runs : AcquireResolve(r, "none")
  \/ \E r \in Runs : \E k \in 1..Len(segs[r]) : Poll(r, k)
  \/ \E r \in Runs : \E k \in 1..Len(segs[r]) : Settle(r, k, "none")
  \/ \E r \in Runs, size \in ChunkSizes \ {0} : OnStop(r, size)
  \/ OnPlayerReady
  \/ Tick
  \/ EditsInFlight

SpecEdit == Init /\ [][NextEdit]_vars

\* What the browser goes on doing, for run r: getDisplayMedia settles, the
\* player plays on, the interval and the timeout of each playSegment fire,
\* and the recorder delivers its stop event.
Progress(r) ==
  /\ WF_vars(\/ \E err \in Rejections : AcquireReject(r, err)
             \/ \E fault \in Faults : AcquireResolve(r, fault))
  /\ \A k \in 1..MaxClips :
       /\ WF_vars(Poll(r, k))
       /\ WF_vars(\E fault \in {"none", "seek"} : Settle(r, k, fault))
  /\ WF_vars(\E size \in ChunkSizes : OnStop(r, size))

\* The k-th playSegment of run r polls for its clip's end.
Waiting(r, k) ==
  k \in DOMAIN segs[r] /\ segs[r][k].timer /\ ~segs[r][k].resolved

\* The player's position comes to the end of each clip a playSegment polls
\* for.
PositionReaches(r) ==
  \A k \in 1..MaxClips :
    []<>(~Waiting(r, k) \/ SampleReached(player.time, segs[r][k].end))

SpecFair ==
  Spec /\ WF_vars(Tick) /\ \A r \in Runs : Progress(r) /\ PositionReaches(r)

\* Three runs of one clip that meet no fault, with the tab hidden and shown.
NextThree ==
  \/ HandleCreateVideo
  \/ \E r \in Runs : AcquireResolve(r, "none")
  \/ \E r \in Runs : \E k \in 1..Len(segs[r]) : Poll(r, k)
  \/ \E r \in Runs : \E k \in 1..Len(segs[r]) : Settle(r, k, "none")
  \/ \E r \in Runs, size \in ChunkSizes \ {0} : OnStop(r, size)
  \/ VisibilityChange
  \/ Tick

SpecThree == InitThree /\ [][NextThree]_vars

\* ================================================================= the claims
\* What a run has reported so far.
Kinds(r) == {reports[r][i].kind : i \in DOMAIN reports[r]}
Cancelled(r) == "cancelled" \in Kinds(r)
Failed(r) == "failed" \in Kinds(r)
\* The run's handleCreateVideo went through its loop and past it.
Completed(r) == pc[r] = "returned" /\ ~Cancelled(r) /\ ~Failed(r)

\* C1: once the visibility handler has fired for a run, that run starts no
\* further playSegment invocation.
C1_NoSegmentAfterCancel ==
  [][\A r \in Runs : Cancelled(r) => Len(segs'[r]) = Len(segs[r])]_vars

\* C2: each track of a run's capture stream is stopped exactly once: never
\* more than once, and once by the time the run has reported its status.
C2_TracksStoppedExactlyOnce ==
  \A r \in Runs : stream[r] # "null" =>
    \A t \in Tracks :
      /\ trackStops[r][t] <= 1
      /\ reports[r] # <<>> => trackStops[r][t] = 1

\* C3: a run in which the visibility handler fired reports nothing but the
\* cancellation: it never reports Done! and never publishes an artifact.
C3_CancelSupersedes ==
  \A r \in Runs : Cancelled(r) =>
    \A i \in DOMAIN reports[r] :
      reports[r][i].kind # "done" /\ reports[r][i].url = NullUrl

\* The step that is recorder.onstop of run r.
OnStopStep(r) ==
  /\ recQueue[r] # <<>>
  /\ Head(recQueue[r]) = "stop"
  /\ recQueue'[r] = Tail(recQueue[r])

Denied(r) ==
  \E i \in DOMAIN reports[r] : reports[r][i].cause = NotAllowedError

\* C5: when getDisplayMedia is denied, the run reports the permission error
\* and clears the processing flag, and it invokes no playSegment, creates no
\* recorder and issues no command to the player, then or later.
C5_DeniedDoesNothing ==
  /\ [](\A r \in Runs : Denied(r) =>
          /\ \A i \in DOMAIN reports[r] : reports[r][i].error = ErrDenied
          /\ segs[r] = <<>>
          /\ recState[r] = "none"
          /\ stream[r] = "null"
          /\ cmds[r] = <<>>)
  /\ [][\A r \in Runs : ~Denied(r) /\ Denied(r)' =>
          error' = ErrDenied /\ ~isProcessing']_vars

\* C5's case: a run was denied.
C5_Witness == \E r \in Runs : Denied(r) /\ error = ErrDenied /\ ~isProcessing

\* A playSegment invocation that is over: polled to its end, paused, settled.
SegmentOver(seg) ==
  /\ ~seg.timer
  /\ ~seg.settlePending
  /\ seg.paused = 1
  /\ seg.settled = 1

\* C6: a run's segments never overlap (each starts only when the one before
\* is paused and settled, and at most one polls at a time), and a run that
\* is neither cancelled nor failed has played each clip of its snapshot
\* once, in the snapshot's order, which ascends by start.
C6_SequentialInOrder ==
  \A r \in Runs :
    /\ \A k \in 2..Len(segs[r]) : SegmentOver(segs[r][k - 1])
    /\ Cardinality({k \in DOMAIN segs[r] :
                      segs[r][k].timer \/ segs[r][k].settlePending}) <= 1
    /\ Completed(r) =>
         /\ Len(segs[r]) = Len(snapshot[r])
         /\ \A k \in DOMAIN segs[r] :
              /\ segs[r][k].start = snapshot[r][k].start
              /\ segs[r][k].end = snapshot[r][k].end
              /\ SegmentOver(segs[r][k])
         /\ \A k \in 2..Len(segs[r]) : segs[r][k - 1].start <= segs[r][k].start
         /\ [k \in DOMAIN segs[r] |-> segs[r][k].start] =
              [k \in 1..Len(SelectSeq(cmds[r], LAMBDA c : c[1] = "seekTo")) |->
                 SelectSeq(cmds[r], LAMBDA c : c[1] = "seekTo")[k][2]]

\* C6's case: a run over two clips went through both.
C6_Witness ==
  \E r \in Runs : Completed(r) /\ Len(snapshot[r]) = 2 /\ Len(segs[r]) = 2

\* C7: a playSegment promise resolves only once a poll has sampled a
\* position at or past the segment's end, after pauseVideo, and only once.
C7_ResolvesAfterEndAndPause ==
  \A r \in Runs : \A k \in DOMAIN segs[r] :
    LET seg == segs[r][k] IN
    /\ seg.settled <= 1
    /\ seg.paused <= 1
    /\ (seg.settlePending \/ seg.settled = 1) =>
         /\ seg.reachedAt >= seg.end
         /\ seg.paused = 1
         /\ seg.resolved
         /\ ~seg.timer
    /\ ~(seg.settlePending /\ seg.settled = 1)

\* C7's case: a promise has resolved.
C7_Witness ==
  \E r \in Runs : \E k \in DOMAIN segs[r] :
    segs[r][k].settled = 1 /\ segs[r][k].reachedAt >= segs[r][k].end

\* The non-empty chunks among those a recorder delivered.
NonEmpty(chunks) == SelectSeq(chunks, LAMBDA c : Len(c) > 0)

\* C8: an artifact is the concatenation of the non-empty chunks its own
\* session's recorder delivered, in arrival order, and of nothing else.
C8_ArtifactIsOwnChunks ==
  \A r \in Runs : \A i \in DOMAIN reports[r] :
    reports[r][i].kind = "done" =>
      reports[r][i].url = CreateObjectURL(Blob(NonEmpty(delivered[r])))

\* A run is in flight: it awaits its capture stream or a segment, or its
\* recorder records.
InFlight(r) == pc[r] \in {"acquiring", "awaiting"} \/ recState[r] = "recording"

\* C9: at most one run is in flight at any time.
C9_OneRunInFlight == Cardinality({r \in Runs : InFlight(r)}) <= 1

\* C10: when a run has reported a terminal status, its tracks are stopped
\* and its recorder does not record.
C10_ReleasedBeforeReport ==
  \A r \in Runs : reports[r] # <<>> =>
    /\ recState[r] # "recording"
    /\ stream[r] # "null" => \A t \in Tracks : trackStops[r][t] >= 1

\* C11: while a run awaits its capture stream, its visibility handler is
\* already registered.
C11_WatcherBeforeAcquisition ==
  \A r \in Runs : pc[r] = "acquiring" => r \in listeners

\* C16: a run is cancelled by its visibility handler only while its recorder
\* records.
C16_CancelOnlyWhileRecording ==
  [][\A r \in Runs :
       ~Cancelled(r) /\ Cancelled(r)' => recState[r] = "recording"]_vars

\* The onstop finalizations of run r that have run.
Finalizations(r) ==
  {i \in DOMAIN reports[r] : reports[r][i].kind \in {"done", "empty"}}

\* C17: a stop is requested of a recorder only while it records, so that a
\* recorder gets one stop request at most however many stop sites are
\* passed, and onstop runs at most once per recording session.
C17_StopIdempotent ==
  /\ [](\A r \in Runs :
          /\ Len(recQueue[r]) + Cardinality(Finalizations(r)) <= 1
          /\ recQueue[r] # <<>> => recState[r] = "inactive")
  /\ [][\A r \in Runs :
          Len(recQueue[r]') > Len(recQueue[r]) =>
            recState[r] = "recording" /\ recState[r]' = "inactive"]_vars

\* C17's case: the handler and the loop's end were both passed, in either
\* order, and onstop has run once.
C17_Witness ==
  \E r \in Runs :
    /\ pc[r] = "returned" /\ Cancelled(r) /\ ~Failed(r)
    /\ Len(segs[r]) = Len(snapshot[r])
    /\ recQueue[r] = <<>>
    /\ Cardinality(Finalizations(r)) = 1

\* C18: once a run has reported a terminal status, none of its polling
\* timers is active.
C18_NoTimerAfterReport ==
  \A r \in Runs : reports[r] # <<>> =>
    \A k \in DOMAIN segs[r] : ~segs[r][k].timer

\* The queue is in ascending order of start.
Sorted(cs) == \A i, j \in DOMAIN cs : i < j => cs[i].start <= cs[j].start

\* The times of the form are numbers with the start before the end.
ValidTimes ==
  LET start == ParseTimeToSeconds(startTime)
      end == ParseTimeToSeconds(endTime)
  IN ~IsNaN(start) /\ ~IsNaN(end) /\ start < end

\* C13: the queue is always in ascending order of start, and a handleAddClip
\* with numeric start < end leaves the old clips in their order with the new
\* clip among them, after the clips that start no later than it and before
\* those that start later.
C13_AddKeepsSorted ==
  /\ []Sorted(clips)
  /\ [][HandleAddClip /\ ValidTimes =>
          LET new == NewClip(ParseTimeToSeconds(startTime),
                             ParseTimeToSeconds(endTime))
          IN \E p \in 1..(Len(clips) + 1) :
               /\ clips' = SubSeq(clips, 1, p - 1) \o <<new>>
                             \o SubSeq(clips, p, Len(clips))
               /\ \A j \in 1..(p - 1) : clips[j].start <= new.start
               /\ \A j \in p..Len(clips) : clips[j].start > new.start]_vars

\* C13's case: clips were added to a loaded queue, one of them before a clip
\* that was there and one with the start of another.
C13_Witness ==
  /\ Len(clips) = MaxClips
  /\ \E i, j \in DOMAIN clips :
       i < j /\ clips[i].id >= FirstNow /\ clips[j].id < FirstNow
  /\ \E i, j \in DOMAIN clips : i < j /\ clips[i].start = clips[j].start

\* C14: every clip of the queue has numeric times with the start before the
\* end, and a handleAddClip whose times are not so leaves the queue as it
\* is and sets a validation error.
C14_InvalidRejected ==
  /\ [](\A i \in DOMAIN clips :
          /\ ~IsNaN(clips[i].start) /\ ~IsNaN(clips[i].end)
          /\ clips[i].start < clips[i].end)
  /\ [][HandleAddClip /\ ~ValidTimes =>
          clips' = clips /\ error' \in {ErrEndAfterStart, ErrInvalidTime}]_vars

\* C14's case: an insertion was rejected with one time a number and the
\* other not.
C14_Witness ==
  /\ error = ErrInvalidTime
  /\ IsNaN(ParseTimeToSeconds(startTime)) # IsNaN(ParseTimeToSeconds(endTime))

\* C19: the clips of the queue have pairwise distinct ids.
C19_DistinctIds ==
  \A i, j \in DOMAIN clips : i # j => clips[i].id # clips[j].id

\* C15: a run's clips are the queue as it was when handleCreateVideo was
\* invoked, whatever the form does to the queue afterwards: its segments
\* are those clips' in their order, all of them once its loop has ended.
C15_RunPlaysSnapshot ==
  /\ [](\A r \in Runs :
          /\ Len(segs[r]) <= Len(snapshot[r])
          /\ \A k \in DOMAIN segs[r] :
               /\ segs[r][k].start = snapshot[r][k].start
               /\ segs[r][k].end = snapshot[r][k].end
          /\ pc[r] = "returned" /\ ~Failed(r) => Len(segs[r]) = Len(snapshot[r]))
  /\ [][\A r \in Runs :
          /\ pc[r] = "idle" /\ pc[r]' # "idle" => snapshot[r]' = clips
          /\ pc[r] # "idle" => snapshot[r]' = snapshot[r]]_vars

\* C15's case: the latest run plays its second segment and the queue is no
\* longer the one it was invoked with.
C15_Witness ==
  \E r \in Runs :
    /\ nextRun = r + 1
    /\ pc[r] = "awaiting"
    /\ Len(segs[r]) = 2
    /\ clips # snapshot[r]

\* C12: a run that has reported a terminal status has no handler
\* registered, and at most one handler is registered at any time.
C12_OneHandlerAtMost ==
  /\ \A r \in Runs : reports[r] # <<>> => r \notin listeners
  /\ Cardinality(listeners) <= 1

====
